---- MODULE Spec2Model ----
(***************************************************************************)
(* A model of the reliable transport of src/transport: two engines         *)
(* (TransportProtocol), each with its receive loop, its connection map and *)
(* the Connection (SenderLogic, ReceiverLogic) it holds for the other      *)
(* engine's address, and the datagram network between them.                *)
(*                                                                         *)
(* An exception that the source raises is modelled as what it leaves       *)
(* behind: the statements before the raising one have run, the ones after  *)
(* it have not, an API call surfaces the exception's name in api, and the  *)
(* receive loop, which catches socket.error only (protocol.py:101), ends.  *)
(***************************************************************************)
EXTENDS Integers, Sequences, FiniteSets, TLC

\* ------------------------------------------------------------------ bounds
\* Application calls of send_msg, over both engines.
MaxSends == 2
\* Datagrams that reach an engine's socket without having been sent by the
\* other engine (another implementation at the peer address, stale or forged
\* datagrams: UDP accepts any).
MaxInject == 1
\* Length of the longest message the application sends (one byte more than
\* MAX_PAYLOAD_SIZE, so that it is cut into two chunks).
MaxMsgLen == 1401

\* Direct calls of SenderLogic.on_rto_expired that count a retransmission or
\* wait for the lock.
MaxRtoCalls == 10

\* ------------------------------------------------------- program constants
FLAG_SYN == 1
FLAG_ACK == 2
FLAG_FIN == 4
FLAG_PSH == 8
MAX_PAYLOAD_SIZE == 1400
MAX_BUFFER_SIZE == 65536
INITIAL_WINDOW == 4096
U16_MAX == 65535

EP == {1, 2}
Peer(e) == 3 - e

HasFlag(flags, f) == (flags \div f) % 2 = 1

\* ----------------------------------------------------------------- state
VARIABLES
    listener,           \* the receive loop thread: running | dead | blocked
    on_new_connection,  \* whether the engine's on_new_connection is set
    conn,               \* the Connection object for the peer's address
    sender,             \* its SenderLogic
    receiver,           \* its ReceiverLogic
    net,                \* datagrams under way to each engine's socket
    api,                \* how the application's last API call ended: ok, the
                        \* exception it raised, or blocked (it never returns)
    out,                \* the datagrams the engine's last step gave to
                        \* sock.sendto
    popped,             \* every chunk _deliver_in_order took from the buffer
    sent,               \* every byte string queue_data_for_sending accepted
    count,              \* calls and events counted against the bounds
    pkt                 \* packet.py on its own: a header and a payload, the
                        \* bytes serialize_packet makes of them, and what
                        \* verify_checksum and deserialize_packet make of those

vars == <<listener, on_new_connection, conn, sender, receiver, net, api, out,
          popped, sent, count, pkt>>

\* ------------------------------------------------------------ byte strings
\* A byte string is a sequence of byte values; a datagram is its header's
\* fields and its payload.
Hdr(flags, cid, seq, ack, rwnd, payload) ==
    [flags |-> flags, conn_id |-> cid, seq |-> seq, ack |-> ack, rwnd |-> rwnd,
     length |-> Len(payload), payload |-> payload]

RECURSIVE Concat(_)
Concat(chunks) ==
    IF chunks = <<>> THEN <<>> ELSE Head(chunks) \o Concat(Tail(chunks))

IsPrefix(s, t) == Len(s) <= Len(t) /\ SubSeq(t, 1, Len(s)) = s

EmptyMap == [s \in {} |-> <<>>]

\* struct.pack(HEADER_FORMAT, ...) raises struct.error for a field outside its
\* width; _send_raw_packet catches it, prints, and sends nothing. The 32-bit
\* fields' upper limit, 2^32 - 1, is above every number of the model.
PackOk(d) ==
    /\ d.flags \in 0..U16_MAX
    /\ d.conn_id >= 0
    /\ d.seq >= 0
    /\ d.ack >= 0
    /\ d.rwnd \in 0..U16_MAX
    /\ d.length \in 0..U16_MAX

\* The datagrams a call of _send_raw_packet(header, payload, dest) puts on the
\* wire: the datagram, or none.
send_raw_packet(d) == IF PackOk(d) THEN <<d>> ELSE <<>>

\* ------------------------------------------------------------ packet codec
\* struct.calcsize("!HHLLLHHH")
HEADER_LEN == 22

\* struct.pack of one 'H' and of one 'L' field, big-endian, and their inverses
\* at position i of a byte string (the model's 32-bit values are below 2^31).
PackH(n) == <<n \div 256, n % 256>>
PackL(n) ==
    <<n \div 16777216, (n \div 65536) % 256, (n \div 256) % 256, n % 256>>
UnpackH(b, i) == b[i] * 256 + b[i + 1]
UnpackL(b, i) == ((b[i] * 256 + b[i + 1]) * 256 + b[i + 2]) * 256 + b[i + 3]

TransportHeader(ver, flags, cid, seq, ack, rwnd, length, checksum) ==
    [ver |-> ver, flags |-> flags, conn_id |-> cid, seq |-> seq, ack |-> ack,
     rwnd |-> rwnd, length |-> length, checksum |-> checksum]

\* struct.pack(HEADER_FORMAT, ver, flags, conn_id, seq, ack, rwnd, length,
\* checksum)
pack(h, checksum) ==
    PackH(h.ver) \o PackH(h.flags) \o PackL(h.conn_id) \o PackL(h.seq)
    \o PackL(h.ack) \o PackH(h.rwnd) \o PackH(h.length) \o PackH(checksum)

\* calculate_checksum's loop over the 16-bit words from byte i on, the carry
\* folded in after every addition.
RECURSIVE SumWords(_, _, _)
SumWords(data, i, checksum) ==
    IF i > Len(data) THEN checksum
    ELSE LET c == checksum + data[i] * 256 + data[i + 1]
         IN SumWords(data, i + 2, (c % 65536) + (c \div 65536))

\* A calculate_checksum that returns the folded sum itself, not its complement.
checksum_without_complement(data) ==
    LET padded == IF Len(data) % 2 = 1 THEN Append(data, 0) ELSE data
    IN SumWords(padded, 1, 0)

\* calculate_checksum: ~checksum & 0xFFFF
calculate_checksum(data) ==
    LET padded == IF Len(data) % 2 = 1 THEN Append(data, 0) ELSE data
    IN U16_MAX - SumWords(padded, 1, 0)

\* A verify_checksum that accepts every datagram.
verify_nothing(packet_data) == TRUE

verify_checksum(packet_data) == calculate_checksum(packet_data) = 0

serialize_packet(h, payload) ==
    pack(h, calculate_checksum(pack(h, 0) \o payload)) \o payload

\* struct.unpack(HEADER_FORMAT, data[:HEADER_LEN]) raises struct.error unless
\* it is given HEADER_LEN bytes.
UnpackOk(data) == Len(data) >= HEADER_LEN

deserialize_packet(data) ==
    [header  |-> TransportHeader(UnpackH(data, 1), UnpackH(data, 3),
                                 UnpackL(data, 5), UnpackL(data, 9),
                                 UnpackL(data, 13), UnpackH(data, 17),
                                 UnpackH(data, 19), UnpackH(data, 21)),
     payload |-> SubSeq(data, HEADER_LEN + 1, Len(data))]

\* --------------------------------------------------------------- objects
NoConnection ==
    [state |-> "NONE", conn_id |-> 0, inMap |-> FALSE,
     on_message_callback |-> FALSE, announced |-> FALSE,
     disconnect_calls |-> 0]

\* Connection.__init__(protocol, conn_id, peer_address, initial_state)
Connection(cid, st) ==
    [NoConnection EXCEPT !.state = st, !.conn_id = cid]

\* A SenderLogic whose first window is narrower than one chunk.
SenderLogicNarrowWindow ==
    [next_seq |-> 0, base_seq |-> 0, send_buffer |-> <<>>,
     unacked_packets |-> EmptyMap, advertised_window |-> 1000,
     lock |-> "free", waiting |-> 0, timers |-> EmptyMap,
     retransmissions |-> 0]

\* SenderLogic.__init__. unacked_packets maps a sequence number to the stored
\* (header, payload) and its rank in the dict's insertion order (ord); timers
\* holds, per sequence number, the state of the threading.Timer that
\* start_rto_timer created for it: "armed", "cancelled" or "finished".
SenderLogic ==
    [next_seq |-> 0, base_seq |-> 0, send_buffer |-> <<>>,
     unacked_packets |-> EmptyMap, advertised_window |-> INITIAL_WINDOW,
     lock |-> "free", waiting |-> 0, timers |-> EmptyMap,
     retransmissions |-> 0]

\* ReceiverLogic.__init__
ReceiverLogic ==
    [buffer |-> EmptyMap, next_expected_seq |-> 0,
     advertised_window |-> MAX_BUFFER_SIZE, lock |-> "free"]

\* -------------------------------------------------------------- receiver
RECURSIVE SumLen(_, _)
SumLen(buffer, S) ==
    IF S = {} THEN 0
    ELSE LET s == CHOOSE x \in S : TRUE
         IN Len(buffer[s]) + SumLen(buffer, S \ {s})

\* used = sum(len(p) for p in self.buffer.values())
Used(buffer) == SumLen(buffer, DOMAIN buffer)

would_overflow(buffer, incoming) ==
    Used(buffer) + Len(incoming) > MAX_BUFFER_SIZE

\* _update_advertised_window: max(0, MAX_BUFFER_SIZE - used)
Window(buffer) ==
    IF MAX_BUFFER_SIZE - Used(buffer) > 0
    THEN MAX_BUFFER_SIZE - Used(buffer) ELSE 0

\* A _deliver_in_order that pops the chunk at next_expected_seq and leaves
\* next_expected_seq where it was.
deliver_without_advance(buffer, nes, cb) ==
    IF nes \in DOMAIN buffer
    THEN [buffer |-> [s \in DOMAIN buffer \ {nes} |-> buffer[s]],
          next_expected_seq |-> nes,
          popped |-> <<[seq |-> nes, data |-> buffer[nes], handed |-> cb]>>]
    ELSE [buffer |-> buffer, next_expected_seq |-> nes, popped |-> <<>>]

\* _deliver_in_order: pops the chunks at next_expected_seq one after another;
\* each is handed to on_message_callback when one is registered (cb), and is
\* dropped otherwise.
RECURSIVE deliver_in_order(_, _, _)
deliver_in_order(buffer, nes, cb) ==
    IF nes \in DOMAIN buffer
    THEN LET data == buffer[nes]
             rest == [s \in DOMAIN buffer \ {nes} |-> buffer[s]]
             r    == deliver_in_order(rest, nes + Len(data), cb)
         IN [r EXCEPT !.popped =
                <<[seq |-> nes, data |-> data, handed |-> cb]>> \o @]
    ELSE [buffer |-> buffer, next_expected_seq |-> nes, popped |-> <<>>]

\* _send_ack: recompute the window, build the header ack_header (flags=ACK,
\* ack=next_expected_seq, rwnd=advertised_window) and send it through
\* Connection._internal_send.
ack_header(c, r) ==
    Hdr(FLAG_ACK, c.conn_id, 0, r.next_expected_seq, Window(r.buffer), <<>>)

send_ack(c, r, pops) ==
    [receiver |-> [r EXCEPT !.advertised_window = Window(r.buffer)],
     emit     |-> send_raw_packet(ack_header(c, r)),
     popped   |-> pops]

\* process_data_packet: the whole body runs inside "with self._lock", on the
\* thread that called it (the receive loop's); _deliver_in_order, and with
\* it every call of on_message_callback, runs inside the block, so each
\* popped chunk is taken with the lock in the state the block gave it
\* (receiver_lock). The block's exit releases the lock.
process_data_packet(c, r0, d) ==
    LET r == [r0 EXCEPT !.lock = "listener"]
        done ==
            IF d.seq < r.next_expected_seq
            THEN send_ack(c, r, <<>>)
            ELSE IF ~would_overflow(r.buffer, d.payload)
            THEN LET b1 == [s \in DOMAIN r.buffer \cup {d.seq} |->
                                IF s = d.seq THEN d.payload ELSE r.buffer[s]]
                     dl == deliver_in_order(b1, r.next_expected_seq,
                                            c.on_message_callback)
                     r1 == [r EXCEPT
                              !.buffer = dl.buffer,
                              !.next_expected_seq = dl.next_expected_seq,
                              !.advertised_window =
                                  IF dl.popped # <<>> THEN Window(dl.buffer)
                                  ELSE r.advertised_window]
                 IN send_ack(c, r1, dl.popped)
            ELSE send_ack(c, r, <<>>)
    IN [receiver |-> [done.receiver EXCEPT !.lock = "free"],
        emit     |-> done.emit,
        popped   |-> [i \in DOMAIN done.popped |->
                        [seq |-> done.popped[i].seq,
                         data |-> done.popped[i].data,
                         handed |-> done.popped[i].handed,
                         receiver_lock |-> r.lock]]]

\* ---------------------------------------------------------------- sender
\* queue_data_for_sending's loop: data[i:i + MAX_PAYLOAD_SIZE] for i in
\* range(0, len(data), MAX_PAYLOAD_SIZE).
RECURSIVE Chunks(_)
Chunks(data) ==
    IF Len(data) = 0 THEN <<>>
    ELSE IF Len(data) <= MAX_PAYLOAD_SIZE THEN <<data>>
    ELSE <<SubSeq(data, 1, MAX_PAYLOAD_SIZE)>>
         \o Chunks(SubSeq(data, MAX_PAYLOAD_SIZE + 1, Len(data)))

\* send_buffered_data, entered by an application thread. With the lock held
\* (by the receive loop, see process_incoming_ack) the thread waits for it and
\* never returns. Otherwise, when the loop's condition holds, the first pass
\* pops the head chunk and sends it with seq=next_seq; then
\* start_rto_timer(payload, next_seq) is called with two arguments for its
\* three parameters and raises TypeError before it creates a timer or stores
\* the segment, so next_seq is not advanced and the with-block releases the
\* lock on the way out.
send_buffered_data(c, s) ==
    IF s.lock # "free"
    THEN [sender |-> [s EXCEPT !.waiting = @ + 1], emit |-> <<>>,
          res |-> "blocked"]
    ELSE IF (s.next_seq - s.base_seq) < s.advertised_window
            /\ s.send_buffer # <<>>
    THEN LET payload == Head(s.send_buffer)
         IN [sender |-> [s EXCEPT !.send_buffer = Tail(@)],
             emit   |-> send_raw_packet(Hdr(FLAG_PSH, c.conn_id, s.next_seq,
                                            0, 0, payload)),
             res    |-> "TypeError"]
    ELSE [sender |-> s, emit |-> <<>>, res |-> "ok"]

queue_data_for_sending(c, s, data) ==
    send_buffered_data(c, [s EXCEPT !.send_buffer = @ \o Chunks(data)])

\* The sequence numbers that process_incoming_ack's list comprehension
\* selects: seq < ack_num.
acked_seqs(s, d) == {k \in DOMAIN s.unacked_packets : k < d.ack}

\* A process_incoming_ack that pops the acknowledged segments and leaves their
\* timers running.
process_incoming_ack_without_cancel(s, d) ==
    [s EXCEPT !.unacked_packets =
                  [q \in DOMAIN @ \ acked_seqs(s, d) |-> @[q]],
              !.base_seq = d.ack,
              !.advertised_window = d.rwnd,
              !.lock = "listener"]

\* process_incoming_ack: under the lock, pops the acknowledged segments and
\* cancels the timer of each (cancel() on a timer that has run changes
\* nothing), sets base_seq to the ACK's ack_num and advertised_window to
\* header.rwnd, and calls send_buffered_data, which waits for the lock its
\* own thread holds (threading.Lock is not reentrant): the calling thread
\* never returns and the lock stays held. The loop unpacks each popped entry
\* into the local name header, so when a segment was removed header.rwnd is
\* the rwnd of the last removed segment's stored header, not the ACK's.
process_incoming_ack(s, d) ==
    LET acked == acked_seqs(s, d)
        last  == CHOOSE k \in acked : \A j \in acked :
                     s.unacked_packets[j].ord <= s.unacked_packets[k].ord
    IN [s EXCEPT !.unacked_packets = [q \in DOMAIN @ \ acked |-> @[q]],
                 !.timers = [q \in DOMAIN @ |->
                                IF q \in acked /\ @[q] = "armed"
                                THEN "cancelled" ELSE @[q]],
                 !.base_seq = d.ack,
                 !.advertised_window =
                     IF acked = {} THEN d.rwnd
                     ELSE s.unacked_packets[last].header.rwnd,
                 !.lock = "listener"]

\* start_rto_timer(header, payload, seq_num): creates and starts
\* Timer(RTO_VALUE, on_rto_expired, args=[payload, seq_num]) and stores the
\* segment under seq_num. The method takes no lock.
start_rto_timer(s, h, payload, seq_num) ==
    [s EXCEPT !.timers = [q \in DOMAIN @ \cup {seq_num} |->
                             IF q = seq_num THEN "armed" ELSE @[q]],
              !.unacked_packets =
                  [q \in DOMAIN @ \cup {seq_num} |->
                      IF q = seq_num
                      THEN [header |-> h, payload |-> payload,
                            ord |-> IF seq_num \in DOMAIN @
                                    THEN @[seq_num].ord
                                    ELSE Cardinality(DOMAIN s.timers)]
                      ELSE @[q]]]

\* on_rto_expired(header, payload, seq_num) called with its three parameters.
\* It waits for the lock; with seq_num in flight it counts the retransmission
\* and calls self.connection.internal_send, a name Connection does not have
\* (its method is _internal_send): AttributeError before anything is sent and
\* before start_rto_timer re-arms; the with-block releases the lock. With
\* seq_num no longer in flight it returns.
on_rto_expired(s, seq_num) ==
    IF s.lock # "free"
    THEN [sender |-> [s EXCEPT !.waiting = @ + 1], emit |-> <<>>,
          res |-> "blocked"]
    ELSE IF seq_num \in DOMAIN s.unacked_packets
    THEN [sender |-> [s EXCEPT !.retransmissions = @ + 1], emit |-> <<>>,
          res |-> "AttributeError"]
    ELSE [sender |-> s, emit |-> <<>>, res |-> "ok"]

\* ---------------------------------------------------------- receive loop
\* What routing one datagram leaves behind: the connection, its sender and
\* receiver, the loop's thread, the datagrams sent and the chunks popped.
Outcome(c, s, r, l, emit, pops) ==
    [conn |-> c, sender |-> s, receiver |-> r, listener |-> l,
     emit |-> emit, popped |-> pops]

\* _handle_new_syn: without on_new_connection the SYN is dropped. Otherwise
\* the connection is created in SYN_RECV under a fresh conn_id and mapped;
\* building the SYN-ACK header then reads conn.sender.seq_num, which
\* SenderLogic does not have: AttributeError, nothing is sent, the loop ends.
handle_new_syn(c, s, r, onc, d, cid) ==
    IF ~onc THEN Outcome(c, s, r, "running", <<>>, <<>>)
    ELSE Outcome([Connection(cid, "SYN_RECV") EXCEPT !.inMap = TRUE],
                 SenderLogic, ReceiverLogic, "dead", <<>>, <<>>)

\* _handle_syn_ack: state and conn_id are set; building the ACK header reads
\* conn.sender.seq_num: AttributeError, nothing is sent, the loop ends.
handle_syn_ack(c, s, r, d) ==
    Outcome([c EXCEPT !.state = "ESTABLISHED", !.conn_id = d.conn_id],
            s, r, "dead", <<>>, <<>>)

\* _handle_handshake_ack: ESTABLISHED, and on_new_connection(conn) is called.
handle_handshake_ack(c, s, r, onc) ==
    Outcome([c EXCEPT !.state = "ESTABLISHED", !.announced = onc],
            s, r, "running", <<>>, <<>>)

\* _handle_fin: building the ACK header calls conn.receiver.get_window_size(),
\* which ReceiverLogic does not have: AttributeError before anything is sent,
\* before on_disconnect_callback and before _cleanup_connection; the loop ends.
handle_fin(c, s, r, d) ==
    Outcome(c, s, r, "dead", <<>>, <<>>)

\* An ESTABLISHED branch whose process_incoming_ack returns: the lock is
\* released and the loop goes on to the next datagram.
route_established_ack_returns(c, s, r, d) ==
    IF HasFlag(d.flags, FLAG_FIN) THEN handle_fin(c, s, r, d)
    ELSE IF HasFlag(d.flags, FLAG_ACK)
    THEN Outcome(c, [process_incoming_ack(s, d) EXCEPT !.lock = "free"], r,
                 "running", <<>>, <<>>)
    ELSE IF d.payload # <<>> \/ HasFlag(d.flags, FLAG_PSH)
    THEN LET p == process_data_packet(c, r, d)
         IN Outcome(c, s, p.receiver, "running", p.emit, p.popped)
    ELSE Outcome(c, s, r, "running", <<>>, <<>>)

\* The ESTABLISHED branch of _listen_loop: FIN, then ACK, then data.
route_established(c, s, r, d) ==
    IF HasFlag(d.flags, FLAG_FIN) THEN handle_fin(c, s, r, d)
    ELSE IF HasFlag(d.flags, FLAG_ACK)
    THEN Outcome(c, process_incoming_ack(s, d), r, "blocked", <<>>, <<>>)
    ELSE IF d.payload # <<>> \/ HasFlag(d.flags, FLAG_PSH)
    THEN LET p == process_data_packet(c, r, d)
         IN Outcome(c, s, p.receiver, "running", p.emit, p.popped)
    ELSE Outcome(c, s, r, "running", <<>>, <<>>)

\* Step 4 of _listen_loop: route by the sender's address and the flags.
route(c, s, r, onc, d, cid) ==
    IF c.inMap
    THEN IF c.state = "SYN_SENT" /\ d.flags = FLAG_SYN + FLAG_ACK
         THEN handle_syn_ack(c, s, r, d)
         ELSE IF c.state = "SYN_RECV" /\ d.flags = FLAG_ACK
         THEN handle_handshake_ack(c, s, r, onc)
         ELSE IF c.state = "ESTABLISHED"
         THEN route_established(c, s, r, d)
         ELSE Outcome(c, s, r, "running", <<>>, <<>>)
    ELSE IF d.flags = FLAG_SYN
    THEN handle_new_syn(c, s, r, onc, d, cid)
    ELSE Outcome(c, s, r, "running", <<>>, <<>>)

\* What deserialize_packet hands to the routing: the header's fields (length
\* as the header states it) and the bytes after the header.
Parsed(data) ==
    LET x == deserialize_packet(data)
    IN [flags |-> x.header.flags, conn_id |-> x.header.conn_id,
        seq |-> x.header.seq, ack |-> x.header.ack, rwnd |-> x.header.rwnd,
        length |-> x.header.length, payload |-> x.payload]

\* Steps 2 to 4 of _listen_loop on the bytes recvfrom returned: a datagram
\* whose checksum does not verify is dropped (continue); deserialize_packet
\* raises struct.error on fewer than HEADER_LEN bytes, which the loop does not
\* catch (it catches socket.error): the loop ends; the header's length field
\* is not compared with the payload, and "if not header" never holds for a
\* TransportHeader, so every other datagram is routed.
receive(c, s, r, onc, raw, cid) ==
    IF ~verify_checksum(raw) THEN Outcome(c, s, r, "running", <<>>, <<>>)
    ELSE IF ~UnpackOk(raw) THEN Outcome(c, s, r, "dead", <<>>, <<>>)
    ELSE route(c, s, r, onc, Parsed(raw), cid)

\* ------------------------------------------------------------ environment
\* The byte strings the application sends.
LongMsg == [i \in 1..MaxMsgLen |-> IF i <= MAX_PAYLOAD_SIZE THEN 2 ELSE 3]
Msgs == {<<1>>, LongMsg}

\* conn_id = random.randint(1, 0xFFFFFFFF): the values the model draws.
ConnIds == {7}

\* The engine whose socket such datagrams reach.
InjectAt == {2}

\* The datagrams that may reach a socket from the peer's address without the
\* peer's engine having sent them.
Injected ==
    {Hdr(FLAG_SYN, 0, 0, 0, 0, <<>>),
     Hdr(FLAG_SYN + FLAG_ACK, 7, 0, 1, 0, <<>>),
     Hdr(FLAG_FIN, 7, 0, 0, 0, <<>>),
     Hdr(FLAG_ACK, 7, 0, 2, 0, <<>>),
     Hdr(FLAG_ACK, 7, 0, 1, INITIAL_WINDOW, <<>>),
     Hdr(FLAG_PSH, 7, 0, 0, 0, <<1>>),
     Hdr(FLAG_PSH, 7, 1, 0, 0, <<2, 2>>),
     Hdr(FLAG_PSH, 7, 5, 0, 0, <<2, 2>>),
     Hdr(FLAG_PSH, 7, MAX_BUFFER_SIZE, 0, 0, <<1>>)}

\* The bytes serialize_packet makes of a datagram the engines send (ver = 1).
Bytes(d) ==
    serialize_packet(TransportHeader(1, d.flags, d.conn_id, d.seq, d.ack,
                                     d.rwnd, d.length, 0), d.payload)

\* A datagram with byte i changed on the way.
Damaged(data, i) == [data EXCEPT ![i] = (@ + 1) % 256]

\* Datagrams damaged on the way (in the flags, in the checksum, in the
\* payload), a datagram cut to two bytes and an empty one.
CorruptDatagrams ==
    {Damaged(Bytes(Hdr(FLAG_SYN, 0, 0, 0, 0, <<>>)), 22),
     Damaged(Bytes(Hdr(FLAG_FIN, 7, 0, 0, 0, <<>>)), 12),
     Damaged(Bytes(Hdr(FLAG_ACK, 7, 0, 1, 0, <<>>)), 4),
     Damaged(Bytes(Hdr(FLAG_PSH, 7, 0, 0, 0, <<1>>)), 23),
     <<0, 1>>,
     <<>>}

\* Datagrams whose checksum verifies and that are no packet: shorter than a
\* header, or with a length field that is not the payload's length.
MalformedDatagrams ==
    {<<255, 255>>,
     <<255, 255, 255, 255>>,
     serialize_packet(TransportHeader(1, FLAG_PSH, 7, 0, 0, 0, 5, 0), <<1>>),
     serialize_packet(TransportHeader(1, FLAG_FIN, 7, 0, 0, 0, 3, 0), <<>>)}

RawDatagrams == CorruptDatagrams \cup MalformedDatagrams

\* ------------------------------------------------------------------ init

\* corrupt counts the loop's "Dropping corrupt packet" lines.
NoCount == [sends |-> 0, injected |-> 0, corrupt |-> 0]

\* packet.py not exercised.
NoPacket ==
    [stage |-> "none", header |-> TransportHeader(1, 0, 0, 0, 0, 0, 0, 0),
     payload |-> <<>>, raw |-> <<>>, verified |-> FALSE,
     decoded |-> [header |-> TransportHeader(1, 0, 0, 0, 0, 0, 0, 0),
                  payload |-> <<>>]]

\* TransportProtocol.__init__ and start(): no connection, the loop running.
Init ==
    /\ listener = [e \in EP |-> "running"]
    /\ on_new_connection = [e \in EP |-> FALSE]
    /\ conn = [e \in EP |-> NoConnection]
    /\ sender = [e \in EP |-> SenderLogic]
    /\ receiver = [e \in EP |-> ReceiverLogic]
    /\ net = [e \in EP |-> {}]
    /\ api = "none"
    /\ out = [e \in EP |-> <<>>]
    /\ popped = [e \in EP |-> <<>>]
    /\ sent = [e \in EP |-> <<>>]
    /\ count = NoCount
    /\ pkt = NoPacket

\* The state the handshake is to produce: each engine holds, mapped under the
\* other's address, a Connection constructed in the ESTABLISHED state with the
\* server's conn_id, and both receive loops run. The handlers of an
\* ESTABLISHED connection are checked from here; the engines' own handshake
\* does not get here with the loop running (see handle_syn_ack).
InitEstablished ==
    /\ listener = [e \in EP |-> "running"]
    /\ on_new_connection = [e \in EP |-> FALSE]
    /\ conn = [e \in EP |-> [Connection(7, "ESTABLISHED") EXCEPT !.inMap = TRUE]]
    /\ sender = [e \in EP |-> SenderLogic]
    /\ receiver = [e \in EP |-> ReceiverLogic]
    /\ net = [e \in EP |-> {}]
    /\ api = "none"
    /\ out = [e \in EP |-> <<>>]
    /\ popped = [e \in EP |-> <<>>]
    /\ sent = [e \in EP |-> <<>>]
    /\ count = NoCount
    /\ pkt = NoPacket

\* ------------------------------------------------------------------- API
Transmit(e, emit) ==
    /\ out' = [out EXCEPT ![e] = emit]
    /\ net' = [net EXCEPT ![Peer(e)] = @ \cup {emit[i] : i \in DOMAIN emit}]

\* protocol.on_new_connection = callback (the attribute of protocol.py:34).
set_on_new_connection(e) ==
    /\ ~on_new_connection[e]
    /\ on_new_connection' = [on_new_connection EXCEPT ![e] = TRUE]
    /\ UNCHANGED <<pkt, listener, conn, sender, receiver, net, api, out, popped,
                   sent, count>>

\* connect(server_addr, timeout): the Connection is created in SYN_SENT and
\* mapped (replacing what was mapped there); building the SYN header reads
\* conn.sender.seq_num, which SenderLogic does not have: AttributeError
\* reaches the caller before anything is sent and before the wait begins.
connect(e) ==
    /\ conn' = [conn EXCEPT ![e] = [Connection(0, "SYN_SENT") EXCEPT !.inMap = TRUE]]
    /\ sender' = [sender EXCEPT ![e] = SenderLogic]
    /\ receiver' = [receiver EXCEPT ![e] = ReceiverLogic]
    /\ api' = "AttributeError"
    /\ Transmit(e, <<>>)
    /\ UNCHANGED <<pkt, listener, on_new_connection, popped, sent, count>>

\* on_message(conn, callback)
on_message(e) ==
    /\ conn[e].state # "NONE"
    /\ ~conn[e].on_message_callback
    /\ conn' = [conn EXCEPT ![e].on_message_callback = TRUE]
    /\ UNCHANGED <<pkt, listener, on_new_connection, sender, receiver, net, api,
                   out, popped, sent, count>>

\* A send_msg without the check of conn.state.
send_msg_unchecked(e, data) ==
    /\ conn[e].state # "NONE"
    /\ count.sends < MaxSends
    /\ count' = [count EXCEPT !.sends = @ + 1]
    /\ LET q == queue_data_for_sending(conn[e], sender[e], data)
       IN /\ sender' = [sender EXCEPT ![e] = q.sender]
          /\ sent' = [sent EXCEPT ![e] = Append(@, data)]
          /\ Transmit(e, q.emit)
          /\ api' = q.res
    /\ UNCHANGED <<pkt, listener, on_new_connection, conn, receiver, popped>>

\* send_msg(conn, data)
send_msg(e, data) ==
    /\ conn[e].state # "NONE"
    /\ count.sends < MaxSends
    /\ count' = [count EXCEPT !.sends = @ + 1]
    /\ IF conn[e].state # "ESTABLISHED"
       THEN /\ api' = "ConnectionError"
            /\ Transmit(e, <<>>)
            /\ UNCHANGED <<sender, sent>>
       ELSE LET q == queue_data_for_sending(conn[e], sender[e], data)
            IN /\ sender' = [sender EXCEPT ![e] = q.sender]
               /\ sent' = [sent EXCEPT ![e] = Append(@, data)]
               /\ Transmit(e, q.emit)
               /\ api' = q.res
    /\ UNCHANGED <<pkt, listener, on_new_connection, conn, receiver, popped>>

\* close(conn): a no-op in FIN_WAIT and CLOSED. Otherwise the state becomes
\* FIN_WAIT; building the FIN header reads conn.sender.seq_num: AttributeError
\* reaches the caller and no FIN is sent.
close(e) ==
    /\ conn[e].state # "NONE"
    /\ IF conn[e].state \in {"FIN_WAIT", "CLOSED"}
       THEN /\ conn' = conn
            /\ api' = "ok"
       ELSE /\ conn' = [conn EXCEPT ![e].state = "FIN_WAIT"]
            /\ api' = "AttributeError"
    /\ Transmit(e, <<>>)
    /\ UNCHANGED <<pkt, listener, on_new_connection, sender, receiver, popped,
                   sent, count>>

\* --------------------------------------------------------------- network
\* One pass of _listen_loop over datagram d. A datagram that was sent stays
\* in the network's set: the network delivers it any number of times
\* (duplication), in any order (reordering), or never (loss).
listen_loop(e, d, cid) ==
    /\ listener[e] = "running"
    /\ d \in net[e]
    /\ LET o == route(conn[e], sender[e], receiver[e], on_new_connection[e],
                      d, cid)
       IN /\ conn' = [conn EXCEPT ![e] = o.conn]
          /\ sender' = [sender EXCEPT ![e] = o.sender]
          /\ receiver' = [receiver EXCEPT ![e] = o.receiver]
          /\ listener' = [listener EXCEPT ![e] = o.listener]
          /\ popped' = [popped EXCEPT ![e] = @ \o o.popped]
          /\ Transmit(e, o.emit)
    /\ UNCHANGED <<pkt, on_new_connection, api, sent, count>>

\* A datagram the peer's engine did not send arrives from the peer's address.
inject(e, d) ==
    /\ count.injected < MaxInject
    /\ d \notin net[e]
    /\ net' = [net EXCEPT ![e] = @ \cup {d}]
    /\ count' = [count EXCEPT !.injected = @ + 1]
    /\ UNCHANGED <<pkt, listener, on_new_connection, conn, sender, receiver, api,
                   out, popped, sent>>

\* One pass of _listen_loop over a datagram that arrives from the peer's
\* address as bytes the peer's engine did not send.
listen_loop_raw(e, raw, cid) ==
    /\ listener[e] = "running"
    /\ count.injected < MaxInject
    /\ count' = [count EXCEPT !.injected = @ + 1,
                              !.corrupt = IF verify_checksum(raw) THEN @
                                          ELSE @ + 1]
    /\ LET o == receive(conn[e], sender[e], receiver[e], on_new_connection[e],
                        raw, cid)
       IN /\ conn' = [conn EXCEPT ![e] = o.conn]
          /\ sender' = [sender EXCEPT ![e] = o.sender]
          /\ receiver' = [receiver EXCEPT ![e] = o.receiver]
          /\ listener' = [listener EXCEPT ![e] = o.listener]
          /\ popped' = [popped EXCEPT ![e] = @ \o o.popped]
          /\ Transmit(e, o.emit)
    /\ UNCHANGED <<pkt, on_new_connection, api, sent>>

Next ==
    \/ \E e \in EP : set_on_new_connection(e)
    \/ \E e \in EP : connect(e)
    \/ \E e \in EP : on_message(e)
    \/ \E e \in EP, data \in Msgs : send_msg(e, data)
    \/ \E e \in EP : close(e)
    \/ \E e \in EP : \E d \in net[e], cid \in ConnIds : listen_loop(e, d, cid)
    \/ \E e \in InjectAt, d \in Injected : inject(e, d)
    \/ \E e \in InjectAt, raw \in RawDatagrams, cid \in ConnIds :
          listen_loop_raw(e, raw, cid)

Spec == Init /\ [][Next]_vars

\* The receive loop is a thread of its own that blocks in recvfrom only while
\* no datagram is there: a datagram under way to a running loop is
\* eventually taken up.
SpecFair ==
    /\ Init
    /\ [][Next]_vars
    /\ \A e \in EP :
          WF_vars(\E d \in net[e] : \E cid \in ConnIds : listen_loop(e, d, cid))

\* Over established connections engine 1's application sends and engine 2's
\* registers its callback and receives.
SendingApps == {1}
ReceivingApps == {2}

NextEstablished ==
    \/ \E e \in ReceivingApps : on_message(e)
    \/ \E e \in SendingApps, data \in Msgs : send_msg(e, data)
    \/ \E e \in EP : \E d \in net[e], cid \in ConnIds : listen_loop(e, d, cid)
    \/ \E e \in InjectAt, d \in Injected : inject(e, d)
    \/ \E e \in InjectAt, raw \in RawDatagrams, cid \in ConnIds :
          listen_loop_raw(e, raw, cid)

SpecEstablished == InitEstablished /\ [][NextEstablished]_vars

\* ---------------------------------------------------- SenderLogic alone
\* Through TransportProtocol no segment is ever stored in unacked_packets
\* (see send_buffered_data), so the operations on stored segments are driven
\* here by calling SenderLogic's methods with the parameters they declare,
\* on the sender of an established connection whose engine receives ACKs.

\* The segments handed to start_rto_timer: the headers send_buffered_data
\* builds (flags=PSH, the connection's conn_id, seq) and their payloads.
Segments ==
    {Hdr(FLAG_PSH, 7, 0, 0, 0, <<1>>),
     Hdr(FLAG_PSH, 7, 1, 0, 0, <<2, 2>>),
     Hdr(FLAG_PSH, 7, 3, 0, 0, <<1>>)}

\* The ACKs that reach the sender's engine.
Acks == {d \in Injected : d.flags = FLAG_ACK}

\* sender.start_rto_timer(header, payload, seq_num)
call_start_rto_timer(e, g) ==
    /\ conn[e].state = "ESTABLISHED"
    /\ g.seq \notin DOMAIN sender[e].timers
    /\ sender' = [sender EXCEPT ![e] =
                      start_rto_timer(@, g, g.payload, g.seq)]
    /\ UNCHANGED <<pkt, listener, on_new_connection, conn, receiver, net, api,
                   out, popped, sent, count>>

\* The timer of seq_num runs out: its thread calls
\* on_rto_expired(payload, seq_num), two arguments for three parameters, and
\* ends with TypeError before the method's first statement.
rto_timer_fires(e, seq_num) ==
    /\ seq_num \in DOMAIN sender[e].timers
    /\ sender[e].timers[seq_num] = "armed"
    /\ sender' = [sender EXCEPT ![e].timers[seq_num] = "finished"]
    /\ Transmit(e, <<>>)
    /\ UNCHANGED <<pkt, listener, on_new_connection, conn, receiver, api,
                   popped, sent, count>>

\* sender.on_rto_expired(header, payload, seq_num)
call_on_rto_expired(e, g) ==
    /\ conn[e].state = "ESTABLISHED"
    /\ sender[e].retransmissions + sender[e].waiting < MaxRtoCalls
    /\ LET o == on_rto_expired(sender[e], g.seq)
       IN /\ sender' = [sender EXCEPT ![e] = o.sender]
          /\ api' = o.res
          /\ Transmit(e, o.emit)
    /\ UNCHANGED <<pkt, listener, on_new_connection, conn, receiver, popped,
                   sent, count>>

NextSender ==
    \/ \E e \in InjectAt, g \in Segments : call_start_rto_timer(e, g)
    \/ \E e \in InjectAt : \E k \in DOMAIN sender[e].timers :
          rto_timer_fires(e, k)
    \/ \E e \in InjectAt, g \in Segments : call_on_rto_expired(e, g)
    \/ \E e \in EP : \E d \in net[e], cid \in ConnIds : listen_loop(e, d, cid)
    \/ \E e \in InjectAt, d \in Acks : inject(e, d)

SpecSender == InitEstablished /\ [][NextSender]_vars

\* ------------------------------------------------------ packet.py alone
\* The headers and payloads serialize_packet is applied to: every field at
\* the ends of its width (2^31 - 1 stands for the 32-bit fields' top) and in
\* between, a length field that agrees with the payload or not, payloads of
\* even and odd length.
Headers ==
    {TransportHeader(ver, flags, cid, seq, 1, rwnd, length, checksum) :
        ver \in {1, 2}, flags \in {0, FLAG_PSH, U16_MAX},
        cid \in {0, 7, 2147483647}, seq \in {0, 65536},
        rwnd \in {0, U16_MAX}, length \in {0, 1}, checksum \in {0, 5}}

Payloads == {<<>>, <<1>>, <<255, 255>>, <<1, 2, 3>>}

InitPacket ==
    /\ listener = [e \in EP |-> "running"]
    /\ on_new_connection = [e \in EP |-> FALSE]
    /\ conn = [e \in EP |-> NoConnection]
    /\ sender = [e \in EP |-> SenderLogic]
    /\ receiver = [e \in EP |-> ReceiverLogic]
    /\ net = [e \in EP |-> {}]
    /\ api = "none"
    /\ out = [e \in EP |-> <<>>]
    /\ popped = [e \in EP |-> <<>>]
    /\ sent = [e \in EP |-> <<>>]
    /\ count = NoCount
    /\ \E h \in Headers, p \in Payloads :
          pkt = [NoPacket EXCEPT !.stage = "built", !.header = h,
                                 !.payload = p]

\* packet = serialize_packet(header, payload)
serialize ==
    /\ pkt.stage = "built"
    /\ pkt' = [pkt EXCEPT !.stage = "serialized",
                          !.raw = serialize_packet(pkt.header, pkt.payload)]
    /\ UNCHANGED <<listener, on_new_connection, conn, sender, receiver, net,
                   api, out, popped, sent, count>>

\* verify_checksum(raw_data); header, payload = deserialize_packet(raw_data)
deserialize ==
    /\ pkt.stage = "serialized"
    /\ UnpackOk(pkt.raw)
    /\ pkt' = [pkt EXCEPT !.stage = "deserialized",
                          !.verified = verify_checksum(pkt.raw),
                          !.decoded = deserialize_packet(pkt.raw)]
    /\ UNCHANGED <<listener, on_new_connection, conn, sender, receiver, net,
                   api, out, popped, sent, count>>

NextPacket == serialize \/ deserialize

SpecPacket == InitPacket /\ [][NextPacket]_vars

\* ================================================================ claims
\* The payloads on_message_callback was called with, in the order of the calls.
Delivered(e) ==
    LET h == SelectSeq(popped[e], LAMBDA p : p.handed)
    IN Concat([i \in DOMAIN h |-> h[i].data])

\* The data segments among the datagrams the engine's last step sent.
DataSent(e) == SelectSeq(out[e], LAMBDA d : d.flags = FLAG_PSH)

\* ------------------------------------------------------------------- C1
\* C1: with no datagram on the network but those the two engines sent
\* (delivered in any order, any number of times, or never), the concatenation
\* of the payloads handed to an engine's on_message callback is a prefix of
\* the concatenation of the byte strings the peer's application passed to
\* send_msg.
C1_FifoPrefix ==
    count.injected = 0 =>
        \A e \in EP : IsPrefix(Delivered(e), Concat(sent[Peer(e)]))

\* ------------------------------------------------------------------- C2
\* C2 as stated: every chunk _deliver_in_order hands to on_message starts at
\* the previous next_expected_seq, and the bytes handed to on_message are
\* exactly [0, next_expected_seq): their total length is next_expected_seq.
C2_DeliveredIsExpectedPrefix ==
    \A e \in EP : Len(Delivered(e)) = receiver[e].next_expected_seq

\* C2, amended: the chunks _deliver_in_order takes from the buffer are
\* contiguous from 0 (each starts where the one before ended, so no byte is
\* taken twice), they end at next_expected_seq, next_expected_seq only grows,
\* and a chunk is handed to on_message exactly when a callback is registered
\* at the time it is taken (it is dropped otherwise).
C2_PoppedIsExpectedPrefix ==
    /\ [](\A e \in EP :
            LET p == popped[e]
            IN /\ \A i \in DOMAIN p :
                    p[i].seq = IF i = 1 THEN 0
                               ELSE p[i - 1].seq + Len(p[i - 1].data)
               /\ receiver[e].next_expected_seq =
                    IF p = <<>> THEN 0
                    ELSE p[Len(p)].seq + Len(p[Len(p)].data))
    /\ [][\A e \in EP :
            /\ receiver'[e].next_expected_seq >= receiver[e].next_expected_seq
            /\ \A i \in DOMAIN popped'[e] \ DOMAIN popped[e] :
                    popped'[e][i].handed = conn[e].on_message_callback]_vars

\* Two chunks have been handed to on_message, the second from the buffer
\* position where the first ended.
C2_Witness ==
    \E e \in EP :
        /\ Len(popped[e]) >= 2
        /\ popped[e][1].handed /\ popped[e][2].handed

\* ------------------------------------------------------------------- C3
\* C3: connect() sends a SYN; the server answers a SYN with SYN|ACK carrying
\* ack = the SYN's seq + 1 and a fresh nonzero conn_id; the client on SYN|ACK
\* adopts the conn_id, becomes ESTABLISHED and sends ACK(ack = peer seq + 1)
\* while its receive loop goes on; the server on that ACK becomes ESTABLISHED
\* and calls on_new_connection.
C3_Handshake ==
    [][\A e \in EP :
        /\ connect(e) =>
              /\ Len(out'[e]) = 1
              /\ out'[e][1].flags = FLAG_SYN
        /\ \A d \in net[e] : \A cid \in ConnIds :
             listen_loop(e, d, cid) =>
               /\ (~conn[e].inMap /\ d.flags = FLAG_SYN /\ on_new_connection[e])
                    => /\ conn'[e].state = "SYN_RECV"
                       /\ Len(out'[e]) = 1
                       /\ out'[e][1].flags = FLAG_SYN + FLAG_ACK
                       /\ out'[e][1].ack = d.seq + 1
                       /\ out'[e][1].conn_id = cid /\ cid # 0
               /\ (conn[e].inMap /\ conn[e].state = "SYN_SENT"
                   /\ d.flags = FLAG_SYN + FLAG_ACK)
                    => /\ conn'[e].state = "ESTABLISHED"
                       /\ conn'[e].conn_id = d.conn_id
                       /\ Len(out'[e]) = 1
                       /\ out'[e][1].flags = FLAG_ACK
                       /\ out'[e][1].ack = d.seq + 1
                       /\ listener'[e] = "running"
               /\ (conn[e].inMap /\ conn[e].state = "SYN_RECV"
                   /\ d.flags = FLAG_ACK)
                    => /\ conn'[e].state = "ESTABLISHED"
                       /\ conn'[e].announced]_vars

\* ------------------------------------------------------------------- C4
\* C4: a data segment the sender has transmitted and the peer has not
\* acknowledged is held in unacked_packets with its timer, so that the RTO
\* retransmits it when it was lost.
C4_SentSegmentsAwaitRto ==
    \A e \in EP : \A i \in DOMAIN DataSent(e) :
        DataSent(e)[i].seq \in DOMAIN sender[e].unacked_packets

C7_SendNotEstablished ==
    [][\A e \in EP : \A data \in Msgs :
        (send_msg(e, data) /\ conn[e].state # "ESTABLISHED") =>
            /\ api' = "ConnectionError"
            /\ sender' = sender
            /\ sent' = sent
            /\ out'[e] = <<>>
            /\ net' = net]_vars

\* send_msg has been refused on a connection in FIN_WAIT.
C7_Witness ==
    \E e \in EP :
        /\ api = "ConnectionError"
        /\ conn[e].state = "FIN_WAIT"
        /\ sender[e].send_buffer = <<>>

\* ------------------------------------------------------------------- C8
\* C8: a connect() whose connection is not ESTABLISHED when the call ends
\* fails with TimeoutError, the connection is CLOSED and is no longer mapped.
C8_ConnectTimeout ==
    [][\A e \in EP :
        (connect(e) /\ conn'[e].state # "ESTABLISHED") =>
            /\ api' = "TimeoutError"
            /\ conn'[e].state = "CLOSED"
            /\ ~conn'[e].inMap]_vars

\* ------------------------------------------------------------------- C9
\* C9: close() on a connection in FIN_WAIT or CLOSED sends nothing and leaves
\* the state and the map unchanged, and close() on any other connection sends
\* one FIN: two calls of close send exactly one FIN.
C9_CloseTwiceOneFin ==
    [][\A e \in EP :
        close(e) =>
            IF conn[e].state \in {"FIN_WAIT", "CLOSED"}
            THEN out'[e] = <<>> /\ conn' = conn
            ELSE /\ Len(out'[e]) = 1
                 /\ out'[e][1].flags = FLAG_FIN]_vars

\* The first half of C9 alone: close() on FIN_WAIT or CLOSED is a no-op.
C9_CloseAgainNoOp ==
    [][\A e \in EP :
        (close(e) /\ conn[e].state \in {"FIN_WAIT", "CLOSED"}) =>
            /\ out'[e] = <<>>
            /\ net' = net
            /\ conn' = conn
            /\ api' = "ok"]_vars

\* ------------------------------------------------------------------ C10
\* C10: when a datagram with the FIN flag is routed to an ESTABLISHED
\* connection, one plain ACK of the FIN is sent, on_disconnect_callback is
\* called, the state becomes CLOSED and the connection leaves the map.
C10_FinClosesConnection ==
    [][\A e \in EP : \A d \in net[e] : \A cid \in ConnIds :
        (listen_loop(e, d, cid) /\ conn[e].inMap
         /\ conn[e].state = "ESTABLISHED" /\ HasFlag(d.flags, FLAG_FIN)) =>
            /\ Len(out'[e]) = 1
            /\ out'[e][1].flags = FLAG_ACK
            /\ out'[e][1].ack = d.seq + 1
            /\ conn'[e].disconnect_calls = conn[e].disconnect_calls + 1
            /\ conn'[e].state = "CLOSED"
            /\ ~conn'[e].inMap]_vars

\* ------------------------------------------------------------------ C11
\* C11: a connection that close() has put in FIN_WAIT, on an engine whose
\* receive loop runs and to which an ACK is under way, eventually is CLOSED
\* and out of the map.
C11_FinWaitAckCloses ==
    \A e \in EP :
        (/\ conn[e].inMap /\ conn[e].state = "FIN_WAIT"
         /\ listener[e] = "running"
         /\ \E d \in net[e] : d.flags = FLAG_ACK)
        ~> (conn[e].state = "CLOSED" /\ ~conn[e].inMap)

\* ------------------------------------------------------------------ C13
\* C13: a pass of the receive loop over a datagram damaged on the way changes
\* no connection's state, sender or receiver, no map entry, calls no callback
\* and sends nothing; the loop goes on.
C13_CorruptDropped ==
    [][\A e \in InjectAt : \A raw \in CorruptDatagrams :
       \A cid \in ConnIds :
        (count'.injected > count.injected
         /\ listen_loop_raw(e, raw, cid)) =>
            /\ conn' = conn
            /\ sender' = sender
            /\ receiver' = receiver
            /\ popped' = popped
            /\ listener' = listener
            /\ net' = net
            /\ out'[e] = <<>>]_vars

\* The loop has dropped a corrupt datagram while a connection was mapped.
C13_Witness ==
    \E e \in EP :
        /\ count.corrupt > 0
        /\ conn[e].inMap
        /\ listener[e] = "running"

\* ------------------------------------------------------------------ C14
\* C14: a datagram from an address with no connection in the map: with flags
\* exactly SYN (on an engine that accepts connections) a connection in
\* SYN_RECV is created and mapped and one SYN|ACK is sent; with any other
\* flags the map and the connections stay as they are and nothing is sent.
C14_UnknownAddressRouting ==
    [][\A e \in EP : \A d \in net[e] : \A cid \in ConnIds :
        (listen_loop(e, d, cid) /\ ~conn[e].inMap) =>
            IF d.flags = FLAG_SYN
            THEN on_new_connection[e] =>
                    /\ conn'[e].state = "SYN_RECV"
                    /\ conn'[e].inMap
                    /\ Len(out'[e]) = 1
                    /\ out'[e][1].flags = FLAG_SYN + FLAG_ACK
                    /\ listener'[e] = "running"
            ELSE /\ conn' = conn
                 /\ sender' = sender
                 /\ receiver' = receiver
                 /\ out'[e] = <<>>]_vars

\* The second half of C14 alone: without a mapped connection a datagram
\* whose flags are not exactly SYN changes nothing.
C14_UnknownDropped ==
    [][\A e \in EP : \A d \in net[e] : \A cid \in ConnIds :
        (listen_loop(e, d, cid) /\ ~conn[e].inMap /\ d.flags # FLAG_SYN) =>
            /\ conn' = conn
            /\ sender' = sender
            /\ receiver' = receiver
            /\ listener' = listener
            /\ out'[e] = <<>>]_vars

\* ------------------------------------------------------------------ C15
\* C15: a pass of the receive loop over a datagram whose checksum verifies
\* and that is shorter than a header, or whose length field is not its
\* payload's length, drops it: the loop goes on, no connection changes,
\* nothing is delivered or sent.
C15_MalformedDropped ==
    [][\A e \in EP : \A raw \in MalformedDatagrams : \A cid \in ConnIds :
        listen_loop_raw(e, raw, cid) =>
            /\ listener'[e] = "running"
            /\ conn' = conn
            /\ sender' = sender
            /\ receiver' = receiver
            /\ popped' = popped
            /\ out'[e] = <<>>]_vars

\* ------------------------------------------------------------------ C16
\* C16: for every header h with its fields within their wire widths and every
\* payload p, verify_checksum(serialize_packet(h, p)) is true, and
\* deserialize_packet(serialize_packet(h, p)) gives back h's fields, with the
\* checksum filled in, and p.
C16_ChecksumRoundTrip ==
    pkt.stage = "deserialized" =>
        /\ pkt.verified
        /\ pkt.decoded.payload = pkt.payload
        /\ pkt.decoded.header =
              [pkt.header EXCEPT !.checksum =
                  calculate_checksum(pack(pkt.header, 0) \o pkt.payload)]

\* A payload of odd length under a header whose words sum past 16 bits has
\* gone through serialize_packet, verify_checksum and deserialize_packet.
C16_Witness ==
    /\ pkt.stage = "deserialized"
    /\ Len(pkt.payload) = 3
    /\ pkt.header.flags = U16_MAX
    /\ pkt.header.rwnd = U16_MAX
    /\ pkt.decoded.header.checksum # 0

\* ------------------------------------------------------------------ C17
\* C17: in every state of a sender whose peer has acknowledged no more than
\* the application has handed to send_msg, base_seq <= next_seq and every key
\* of unacked_packets lies in [base_seq, next_seq).
C17_SenderInvariant ==
    \A e \in EP :
        sender[e].base_seq <= Len(Concat(sent[e])) =>
            /\ sender[e].base_seq <= sender[e].next_seq
            /\ \A k \in DOMAIN sender[e].unacked_packets :
                  sender[e].base_seq <= k /\ k < sender[e].next_seq

\* ------------------------------------------------------------------ C19
\* C19: a pass of the receive loop that hands an ACK to process_incoming_ack
\* sets base_seq and advertised_window, transmits a queued chunk the window
\* now admits, and returns: the lock is free again and the loop goes on.
C19_AckDrainReturns ==
    [][\A e \in EP : \A d \in net[e] : \A cid \in ConnIds :
        (listen_loop(e, d, cid) /\ conn[e].inMap
         /\ conn[e].state = "ESTABLISHED"
         /\ HasFlag(d.flags, FLAG_ACK) /\ ~HasFlag(d.flags, FLAG_FIN)) =>
            /\ sender'[e].base_seq = d.ack
            /\ sender'[e].advertised_window = d.rwnd
            /\ sender'[e].lock = "free"
            /\ listener'[e] = "running"
            /\ (sender[e].send_buffer # <<>>
                /\ sender[e].next_seq - d.ack + Len(Head(sender[e].send_buffer))
                      <= d.rwnd)
                  => DataSent(e)' # <<>>]_vars

\* ------------------------------------------------------------------ C12
\* C12: once a segment has been retransmitted N = 10 times in a row without
\* any ACK progress, the sender has declared the connection dead: its state
\* is CLOSED, on_disconnect has been invoked and the connection is no longer
\* in the engine's map.
DeadPeerRetries == MaxRtoCalls

C12_DeadPeerDeclared ==
    \A e \in EP :
        (sender[e].retransmissions >= DeadPeerRetries
         /\ sender[e].base_seq = 0)
        => /\ conn[e].state = "CLOSED"
           /\ conn[e].disconnect_calls >= 1
           /\ ~conn[e].inMap

\* ------------------------------------------------------------------ C18
\* C18: a pass of the receive loop that hands an ACK with ack = K to
\* process_incoming_ack removes, in that one step, every in-flight segment
\* with seq < K and leaves none of their timers armed, and leaves every
\* in-flight segment with seq >= K, and its timer, as it was; and in no step
\* does a cancelled timer run again or a segment that is not in flight get
\* retransmitted.
C18_CumulativeAck ==
    [][\A e \in EP :
        /\ \A d \in net[e] : \A cid \in ConnIds :
              (listen_loop(e, d, cid) /\ conn[e].state = "ESTABLISHED"
               /\ d.flags = FLAG_ACK)
              => \A k \in DOMAIN sender[e].unacked_packets :
                    IF k < d.ack
                    THEN /\ k \notin DOMAIN sender'[e].unacked_packets
                         /\ sender'[e].timers[k] # "armed"
                    ELSE /\ k \in DOMAIN sender'[e].unacked_packets
                         /\ sender'[e].unacked_packets[k]
                               = sender[e].unacked_packets[k]
                         /\ sender'[e].timers[k] = sender[e].timers[k]
        /\ \A k \in DOMAIN sender[e].timers :
              /\ sender[e].timers[k] = "cancelled"
                    => sender'[e].timers[k] = "cancelled"
              /\ k \notin DOMAIN sender[e].unacked_packets
                    => \A i \in DOMAIN out'[e] :
                          ~(out'[e][i].flags = FLAG_PSH /\ out'[e][i].seq = k)
      ]_vars

\* An ACK has retired a segment whose timer was armed and has left a later
\* one in flight with its timer armed.
C18_Witness ==
    \E e \in EP :
        /\ sender[e].lock = "listener"
        /\ \E k \in DOMAIN sender[e].timers :
              /\ k < sender[e].base_seq
              /\ sender[e].timers[k] = "cancelled"
        /\ \E k \in DOMAIN sender[e].unacked_packets :
              /\ k >= sender[e].base_seq
              /\ sender[e].timers[k] = "armed"

\* ------------------------------------------------------------------ C20
\* C20: when the RTO timer of a sequence number that is still in flight runs
\* out, the step sends exactly the stored segment (its header and payload),
\* leaves base_seq and next_seq as they were and leaves a timer armed for
\* that sequence number.
C20_RetransmissionStep ==
    [][\A e \in EP : \A k \in DOMAIN sender[e].timers :
          (rto_timer_fires(e, k) /\ k \in DOMAIN sender[e].unacked_packets)
          => /\ out'[e] = <<sender[e].unacked_packets[k].header>>
             /\ sender'[e].base_seq = sender[e].base_seq
             /\ sender'[e].next_seq = sender[e].next_seq
             /\ sender'[e].timers[k] = "armed"
      ]_vars

\* ------------------------------------------------------------------ C21
\* C21: in every state every chunk (s, p) in a receiver's buffer has
\* s >= next_expected_seq, and its byte range [s, s + len(p)) overlaps no
\* other buffered chunk's range (with s >= next_expected_seq it then lies
\* beyond the delivered prefix [0, next_expected_seq) too).
C21_ReceiverBufferInvariant ==
    \A e \in EP :
        LET b == receiver[e].buffer
        IN \A s \in DOMAIN b :
              /\ s >= receiver[e].next_expected_seq
              /\ \A t \in DOMAIN b \ {s} :
                    s + Len(b[s]) <= t \/ t + Len(b[t]) <= s

\* ------------------------------------------------------------------ C22
\* C22: a pass of the receive loop that hands a data packet of an
\* established connection to process_data_packet sends exactly one packet:
\* flags=ACK, seq=0, no payload, ack = next_expected_seq after the
\* processing and rwnd = MAX_BUFFER_SIZE less the bytes buffered after it.
C22_OneAckPerDataPacket ==
    [][\A e \in EP : \A d \in net[e] : \A cid \in ConnIds :
          (listen_loop(e, d, cid) /\ conn[e].state = "ESTABLISHED"
           /\ d.flags = FLAG_PSH)
          => out'[e] = <<[flags |-> FLAG_ACK, conn_id |-> conn[e].conn_id,
                          seq |-> 0, ack |-> receiver'[e].next_expected_seq,
                          rwnd |-> MAX_BUFFER_SIZE
                                     - Used(receiver'[e].buffer),
                          length |-> 0, payload |-> <<>>]>>
      ]_vars

\* ------------------------------------------------------------------ C25
\* C25: the rwnd that _send_ack places in the header of a receiver ACK is in
\* 0..65535 whatever the receiver's buffer holds, so that the header can be
\* packed and the ACK is sent.
C25_RwndFitsWireField ==
    [][\A e \in EP : \A d \in net[e] : \A cid \in ConnIds :
          (listen_loop(e, d, cid) /\ conn[e].state = "ESTABLISHED"
           /\ d.flags = FLAG_PSH)
          => /\ ack_header(conn'[e], receiver'[e]).rwnd \in 0..U16_MAX
             /\ PackOk(ack_header(conn'[e], receiver'[e]))
      ]_vars

\* ------------------------------------------------------------------ C23
\* C23: a data packet whose last byte lies more than MAX_BUFFER_SIZE beyond
\* next_expected_seq (seq + len(payload) - next_expected_seq > 64 KiB) is
\* neither buffered nor delivered: the pass that processes it leaves the
\* buffer and next_expected_seq as they were.
C23_OverflowNotBuffered ==
    [][\A e \in EP : \A d \in net[e] : \A cid \in ConnIds :
          (listen_loop(e, d, cid) /\ conn[e].state = "ESTABLISHED"
           /\ d.flags = FLAG_PSH
           /\ d.seq + Len(d.payload) - receiver[e].next_expected_seq
                  > MAX_BUFFER_SIZE)
          => /\ receiver'[e].buffer = receiver[e].buffer
             /\ receiver'[e].next_expected_seq
                   = receiver[e].next_expected_seq
      ]_vars

\* The part of C23 that the code keeps: the buffered payloads never add up
\* to more than MAX_BUFFER_SIZE.
C23_BufferWithinMax ==
    \A e \in EP : Used(receiver[e].buffer) <= MAX_BUFFER_SIZE

\* ------------------------------------------------------------------ C24
\* C24: whenever a chunk is handed to on_message, neither the receiver's
\* lock nor the sender's lock of that connection is held.
C24_CallbackWithoutLock ==
    [][\A e \in EP : \A i \in DOMAIN popped'[e] \ DOMAIN popped[e] :
          popped'[e][i].handed
          => /\ popped'[e][i].receiver_lock = "free"
             /\ sender[e].lock = "free"
      ]_vars

\* The part of C24 that the code keeps: the sender's lock is free whenever a
\* chunk is handed to on_message.
C24_SenderLockFreeAtCallback ==
    [][\A e \in EP : \A i \in DOMAIN popped'[e] \ DOMAIN popped[e] :
          popped'[e][i].handed => sender[e].lock = "free"
      ]_vars

\* ------------------------------------------------------------------ C26
\* C26: connect() for an address under which a live (mapped, not CLOSED)
\* Connection is already registered does not replace that Connection: the
\* engine's entry for the address is after the call what it was before.
C26_ConnectKeepsLiveConnection ==
    [][\A e \in EP :
          (connect(e) /\ conn[e].inMap /\ conn[e].state # "CLOSED")
          => conn'[e] = conn[e]
      ]_vars

\* ------------------------------------------------------------------ C27
\* C27 speaks of a connection that an incoming FIN has closed (on_disconnect
\* invoked, state CLOSED, removed from the map). No engine reaches such a
\* state: _handle_fin raises before it calls on_disconnect_callback or
\* _cleanup_connection, so no Connection is ever CLOSED and on_disconnect is
\* never invoked.
C27_NeverClosedByFin ==
    \A e \in EP : conn[e].state # "CLOSED" /\ conn[e].disconnect_calls = 0

====
